---- MODULE Spec2Model ----
(***************************************************************************)
(* A model of arigo's client (src/client.go): the notification handlers    *)
(* registered with the rpc client, the listener table filled by Subscribe, *)
(* the waiter table used by WaitForDownload, DownloadWithContext with its  *)
(* wait task and its select, Delete, the decoding loop of MultiCall, and   *)
(* the results of AddMetalinkAtPosition and ChangeURIAt.                   *)
(*                                                                         *)
(* Every goroutine is a process with a program counter.  One step is one   *)
(* access to shared state (a map operation, a channel operation, a remote  *)
(* call); a map operation is taken as indivisible.                         *)
(*                                                                         *)
(* What lies outside client.go is modelled by its contract:                *)
(*  - the rpc client runs the handler of each notification in a goroutine  *)
(*    of its own, so handlers may overlap;                                 *)
(*  - rpcClient.Call either fills the reply and returns nil, or returns an *)
(*    error and leaves the reply at its zero value;                        *)
(*  - the methods of GID (WaitForDownload, TellStatus, Delete) call the    *)
(*    methods of Client of the same name with the GID's string;            *)
(*  - MethodCallError is a struct of a code and a message, MethodResult a  *)
(*    struct of Result []byte and Error *MethodCallError;                  *)
(*  - a go statement on a nil function value is a fatal error of the Go    *)
(*    runtime, which ends the program.                                     *)
(***************************************************************************)
EXTENDS Integers, Sequences, FiniteSets, TLC

\* ------------------------------------------------------------ bounds
\* notification handlers that run at the same time
MaxHandlers == 1
\* Subscribe calls in one run
MaxSubs == 1
\* longest aria2.multicall reply
MaxReply == 3
\* longest aria2.addMetalink reply
MaxGids == 3

\* ------------------------------------------------------------ values
Handles == {"g1", "g2"}
\* the zero value of a string, which is the GID of a failed AddUri
NoGID == ""
GIDs == Handles \cup {NoGID}

Kinds == {"downloadStart", "downloadPause", "downloadStop",
          "downloadComplete", "downloadError", "btDownloadComplete"}

\* error values; Nil is Go's nil error
Nil == "nil"
ErrStopped == "download stopped"
ErrErrored == "download encountered error"
ErrCancelled == "download cancelled"
\* the errors rpcClient.Call returns for the four remote methods used here
ErrAddUri == "aria2.addUri failed"
ErrTellStatus == "aria2.tellStatus failed"
ErrRemove == "aria2.remove failed"
ErrGetFiles == "aria2.getFiles failed"
ErrAddMetalink == "aria2.addMetalink failed"
ErrChangeUri == "aria2.changeUri failed"
\* the error of os.Remove
ErrOsRemove == "remove: no such file or directory"

\* a Status value, and the zero Status
StatusOf(g) == [gid |-> g]
NoStatus == [gid |-> NoGID]

\* goroutines that call WaitForDownload: direct callers, and the wait task
\* DownloadWithContext starts
WaitTask == "wt"
DirectWaiters == {"w1", "w2"}
Waiters == DirectWaiters \cup {WaitTask}

\* a channel made by WaitForDownload is named after the call that made it
ChanIds == Waiters
NoChan == "nochan"

\* listeners are numbered by the Subscribe call that passed them; 0 is the
\* nil function value
NilListener == 0
ListenerIds == 1..MaxSubs
Notifs == 1..MaxHandlers

VARIABLES
    listeners,    \* c.listeners: kind -> slice of listeners (<<>>: no key)
    activeGIDs,   \* c.activeGIDs: gid -> channel (NoChan: no key)
    chanBuf,      \* the buffer (capacity 1) of each channel of activeGIDs
    crashed,      \* the runtime has stopped the program (fatal error)
    invoked,      \* the go statements onEvent executed: <<listener, notif>>
    nSubs,        \* Subscribe calls made so far
    hpc, hkind, hgid, hchan,   \* the handler goroutines ("none": not running)
    wpc, wgid, wchan, wret, wkind,   \* the WaitForDownload calls
    dpc, dgid, dbranch,        \* the DownloadWithContext call
    dret,         \* its named results (status, err)
    ctxDone,      \* ctx.Done() is closed
    doneBuf,      \* the buffer (capacity 1) of downloadDone
    rpcCalls,     \* remote methods DownloadWithContext has called
    delErr,       \* what gid.Delete() returned on the cancellation branch
    termFirst,    \* a terminal notification that can be for the handle
                  \* of the download has come before ctx.Done
    mcReply, mcResults, mcDone,  \* MultiCall: reply, results, returned
    mlAns, mlRet, mlDone,  \* AddMetalinkAtPosition: the remote's answer, the
                           \* results (gids, err), returned
    delAns, delRet, delCalls, delDone,  \* a direct call of Delete: the
                           \* remote's answers, the result, the calls, returned
    cuAns, cuRet, cuDone   \* ChangeURIAt: the remote's answer, the outcome,
                           \* the call has ended

vars == <<listeners, activeGIDs, chanBuf, crashed, invoked, nSubs,
          hpc, hkind, hgid, hchan, wpc, wgid, wchan, wret, wkind,
          dpc, dgid, dret, dbranch, ctxDone, doneBuf, rpcCalls, delErr,
          termFirst, mcReply, mcResults, mcDone, mlAns, mlRet, mlDone,
          delAns, delRet, delCalls, delDone, cuAns, cuRet, cuDone>>

routerVars == <<listeners, crashed, invoked, nSubs>>
handlerVars == <<hpc, hkind, hgid, hchan>>
waiterVars == <<wpc, wgid, wchan, wret, wkind>>
tableVars == <<activeGIDs, chanBuf>>
dlVars == <<dpc, dgid, dret, dbranch, ctxDone, doneBuf, rpcCalls, delErr>>
mcVars == <<mcReply, mcResults, mcDone>>
mlVars == <<mlAns, mlRet, mlDone>>
delVars == <<delAns, delRet, delCalls, delDone>>
\* the calls that touch no state of the client
cuVars == <<cuAns, cuRet, cuDone>>
callVars == <<mcVars, mlVars, delVars, cuVars>>

\* ------------------------------------------------------------ NewClient
ClientInit ==
    /\ listeners = [k \in Kinds |-> <<>>]
    /\ activeGIDs = [g \in GIDs |-> NoChan]
    /\ chanBuf = [c \in ChanIds |-> <<>>]
    /\ crashed = FALSE
    /\ invoked = <<>>
    /\ nSubs = 0
    /\ hpc = [n \in Notifs |-> "none"]
    /\ hkind = [n \in Notifs |-> "downloadStart"]
    /\ hgid = [n \in Notifs |-> NoGID]
    /\ hchan = [n \in Notifs |-> NoChan]
    /\ wpc = [w \in Waiters |-> "idle"]
    /\ wgid = [w \in Waiters |-> NoGID]
    /\ wchan = [w \in Waiters |-> NoChan]
    /\ wret = [w \in Waiters |-> Nil]
    /\ wkind = [w \in Waiters |-> "none"]
    /\ dpc = "idle"
    /\ dgid = NoGID
    /\ dret = [status |-> NoStatus, err |-> Nil]
    /\ dbranch = "none"
    /\ ctxDone = FALSE
    /\ doneBuf = <<>>
    /\ rpcCalls = {}
    /\ delErr = Nil
    /\ termFirst = FALSE

McIdle ==
    /\ mcReply = <<>>
    /\ mcResults = <<>>
    /\ mcDone = FALSE

\* no call of AddMetalinkAtPosition and no direct call of Delete
CallsIdle ==
    /\ mlAns = [reply |-> <<>>, err |-> Nil]
    /\ mlRet = [gids |-> <<>>, err |-> Nil]
    /\ mlDone = FALSE
    /\ delAns = [remove |-> Nil, getFiles |-> Nil, osRemove |-> Nil]
    /\ delRet = Nil
    /\ delCalls = {}
    /\ delDone = FALSE
    /\ cuAns = [reply |-> <<>>, err |-> Nil]
    /\ cuRet = [panic |-> FALSE, deleted |-> 0, added |-> 0, err |-> Nil]
    /\ cuDone = FALSE

Init == ClientInit /\ McIdle /\ CallsIdle

\* ------------------------------------------------------------ Subscribe
\* the slice Subscribe stores under name, given the slice it read (<<>> when
\* the key is absent: make([]EventListener, 1) holds one nil function)
SubscribeSlice(old, listener) ==
    Append(IF old = <<>> THEN <<NilListener>> ELSE old, listener)

Subscribe(name) ==
    /\ ~crashed
    /\ nSubs < MaxSubs
    /\ nSubs' = nSubs + 1
    /\ listeners' = [listeners EXCEPT
                       ![name] = SubscribeSlice(listeners[name], nSubs + 1)]
    /\ UNCHANGED <<crashed, invoked, handlerVars, waiterVars, tableVars,
                   dlVars, termFirst, callVars>>

\* ------------------------------------------------------------ onEvent
\* the number of go statements the loop of onEvent executes over slice ls:
\* all of them, or up to and including the first nil function, where the
\* runtime stops the program ("go of nil func value")
GoCount(ls) ==
    LET nils == {i \in 1..Len(ls) : ls[i] = NilListener}
    IN IF nils = {} THEN Len(ls)
       ELSE CHOOSE i \in nils : \A j \in nils : i <= j

onEventFatal(name) ==
    \E i \in 1..Len(listeners[name]) : listeners[name][i] = NilListener

\* the go statements onEvent executes for notification n of kind name
onEvent(name, n) ==
    [i \in 1..GoCount(listeners[name]) |-> <<listeners[name][i], n>>]

\* ------------------------------------------------------------ handlers
\* the transport runs each notification's handler in a goroutine of its own;
\* a handler that has returned frees its slot
FreeNotif == CHOOSE n \in Notifs : hpc[n] = "none"
                                  /\ \A m \in Notifs : m < n => hpc[m] # "none"

\* return nil: the handler's goroutine ends
HandlerReturn(n) ==
    /\ ~crashed
    /\ hpc[n] = "return"
    /\ hpc' = [hpc EXCEPT ![n] = "none"]
    /\ hkind' = [hkind EXCEPT ![n] = "downloadStart"]
    /\ hgid' = [hgid EXCEPT ![n] = NoGID]
    /\ hchan' = [hchan EXCEPT ![n] = NoChan]
    /\ UNCHANGED <<routerVars, waiterVars, tableVars, dlVars, termFirst,
                   callVars>>

\* the first step of a handler: c.onEvent(name, event).  signals tells
\* whether the handler goes on to look the GID up in activeGIDs.
HandlerStart(name, g, signals) ==
    /\ ~crashed
    /\ \E n \in Notifs : hpc[n] = "none"
    /\ LET n == FreeNotif
           fatal == onEventFatal(name)
       IN /\ invoked' = invoked \o onEvent(name, n)
          /\ crashed' = fatal
          /\ hkind' = [hkind EXCEPT ![n] = name]
          /\ hgid' = [hgid EXCEPT ![n] = g]
          /\ hpc' = [hpc EXCEPT ![n] = IF fatal THEN "fatal"
                                       ELSE IF signals THEN "lookup"
                                       ELSE "return"]
          /\ termFirst' = (termFirst \/ (signals /\ ~ctxDone
                                          /\ dgid \in {g, NoGID}))
    /\ UNCHANGED <<listeners, nSubs, hchan, waiterVars, tableVars, dlVars,
                   callVars>>

onDownloadStart(g) == HandlerStart("downloadStart", g, FALSE)
\* a variant of onDownloadPause: the handler goes on to the lookup
onDownloadPauseSignals(g) == HandlerStart("downloadPause", g, TRUE)
onDownloadPause(g) == HandlerStart("downloadPause", g, FALSE)
onDownloadStop(g) == HandlerStart("downloadStop", g, TRUE)
onDownloadComplete(g) == HandlerStart("downloadComplete", g, TRUE)
onDownloadError(g) == HandlerStart("downloadError", g, TRUE)
onBtDownloadComplete(g) == HandlerStart("btDownloadComplete", g, FALSE)

\* a variant of Outcome: onDownloadError sends the error of onDownloadStop
OutcomeSameError(name) ==
    CASE name = "downloadStop" -> ErrStopped
      [] name = "downloadComplete" -> Nil
      [] name = "downloadError" -> ErrStopped

\* the error each terminal handler sends
Outcome(name) ==
    CASE name = "downloadStop" -> ErrStopped
      [] name = "downloadComplete" -> Nil
      [] name = "downloadError" -> ErrErrored

\* the capacity of a channel of activeGIDs and of downloadDone
ChanCap == 1

\* a variant of SignalChannel: without an entry for gid the handler falls
\* back on the channel of any entry there is
SignalChannelAny(table, gid) ==
    IF table[gid] # NoChan THEN table[gid]
    ELSE IF \E g \in GIDs : table[g] # NoChan
         THEN table[CHOOSE g \in GIDs : table[g] # NoChan]
         ELSE NoChan

\* channel, ok := c.activeGIDs[event.GID] in a terminal handler
SignalChannel(table, gid) == table[gid]

\* the lookup, and if ok { ... }
SignalLookup(n) ==
    /\ ~crashed
    /\ hpc[n] = "lookup"
    /\ hchan' = [hchan EXCEPT ![n] = SignalChannel(activeGIDs, hgid[n])]
    /\ hpc' = [hpc EXCEPT ![n] = IF SignalChannel(activeGIDs, hgid[n]) = NoChan
                                 THEN "return" ELSE "send"]
    /\ UNCHANGED <<routerVars, hkind, hgid, waiterVars, tableVars, dlVars,
                   termFirst, callVars>>

\* channel <- err: blocks while the buffer is full
SignalSend(n) ==
    /\ ~crashed
    /\ hpc[n] = "send"
    /\ Len(chanBuf[hchan[n]]) < ChanCap
    /\ chanBuf' = [chanBuf EXCEPT ![hchan[n]] =
                     Append(@, [err |-> Outcome(hkind[n]), kind |-> hkind[n]])]
    /\ hpc' = [hpc EXCEPT ![n] = "return"]
    /\ UNCHANGED <<routerVars, hkind, hgid, hchan, waiterVars, activeGIDs,
                   dlVars, termFirst, callVars>>

\* ------------------------------------------------------------ WaitForDownload
\* a direct caller calls WaitForDownload(g)
WaitCall(w, g) ==
    /\ ~crashed
    /\ w \in DirectWaiters
    /\ wpc[w] = "idle"
    /\ wpc' = [wpc EXCEPT ![w] = "lookup"]
    /\ wgid' = [wgid EXCEPT ![w] = g]
    /\ UNCHANGED <<routerVars, handlerVars, wchan, wret, wkind, tableVars,
                   dlVars, termFirst, callVars>>

\* channel, ok := c.activeGIDs[gid]; without an entry the call makes a channel
WaitLookup(w) ==
    /\ ~crashed
    /\ wpc[w] = "lookup"
    /\ IF activeGIDs[wgid[w]] = NoChan
       THEN /\ wchan' = [wchan EXCEPT ![w] = w]
            /\ wpc' = [wpc EXCEPT ![w] = "insert"]
       ELSE /\ wchan' = [wchan EXCEPT ![w] = activeGIDs[wgid[w]]]
            /\ wpc' = [wpc EXCEPT ![w] = "recv"]
    /\ UNCHANGED <<routerVars, handlerVars, wgid, wret, wkind, tableVars,
                   dlVars, termFirst, callVars>>

\* a variant of Register: an entry that exists is kept
RegisterKeepsFirst(table, gid, channel) ==
    IF table[gid] # NoChan THEN table ELSE [table EXCEPT ![gid] = channel]

\* the table after c.activeGIDs[gid] = channel
Register(table, gid, channel) == [table EXCEPT ![gid] = channel]

\* c.activeGIDs[gid] = channel
WaitInsert(w) ==
    /\ ~crashed
    /\ wpc[w] = "insert"
    /\ activeGIDs' = Register(activeGIDs, wgid[w], wchan[w])
    /\ wpc' = [wpc EXCEPT ![w] = "recv"]
    /\ UNCHANGED <<routerVars, handlerVars, wgid, wchan, wret, wkind, chanBuf,
                   dlVars, termFirst, callVars>>

\* err := <-channel
WaitRecv(w) ==
    /\ ~crashed
    /\ wpc[w] = "recv"
    /\ chanBuf[wchan[w]] # <<>>
    /\ wret' = [wret EXCEPT ![w] = Head(chanBuf[wchan[w]]).err]
    /\ wkind' = [wkind EXCEPT ![w] = Head(chanBuf[wchan[w]]).kind]
    /\ chanBuf' = [chanBuf EXCEPT ![wchan[w]] = Tail(@)]
    /\ wpc' = [wpc EXCEPT ![w] = "delete"]
    /\ UNCHANGED <<routerVars, handlerVars, wgid, wchan, activeGIDs, dlVars,
                   termFirst, callVars>>

\* a variant of DeleteEntry: the entry is left in the table
DeleteEntryForgotten(table, gid) == table

\* the table after delete(c.activeGIDs, gid)
DeleteEntry(table, gid) == [table EXCEPT ![gid] = NoChan]

\* delete(c.activeGIDs, gid); return err
WaitReturn(w) ==
    /\ ~crashed
    /\ wpc[w] = "delete"
    /\ activeGIDs' = DeleteEntry(activeGIDs, wgid[w])
    /\ wpc' = [wpc EXCEPT ![w] = "returned"]
    /\ wchan' = [wchan EXCEPT ![w] = NoChan]
    /\ UNCHANGED <<routerVars, handlerVars, wgid, wret, wkind, chanBuf,
                   dlVars, termFirst, callVars>>

\* ------------------------------------------------------------ Delete
\* what Delete's calls answer: the error of aria2.remove, when that call
\* succeeded the error of aria2.getFiles, and when that one succeeded too the
\* error of os.Remove for the download's file
DeleteAnswers ==
    {[remove |-> ErrRemove, getFiles |-> Nil, osRemove |-> Nil],
     [remove |-> Nil, getFiles |-> ErrGetFiles, osRemove |-> Nil],
     [remove |-> Nil, getFiles |-> Nil, osRemove |-> Nil],
     [remove |-> Nil, getFiles |-> Nil, osRemove |-> ErrOsRemove]}

\* the error Delete returns: err is the named result, which
\* files, err := c.GetFiles(gid) assigns again
Delete(ans) == IF ans.remove # Nil THEN ans.remove ELSE ans.getFiles

\* the calls Delete makes
DeleteCalls(ans) ==
    IF ans.remove # Nil THEN {"aria2.remove"}
    ELSE IF ans.getFiles # Nil THEN {"aria2.remove", "aria2.getFiles"}
    ELSE {"aria2.remove", "aria2.getFiles", "os.Remove"}

\* ------------------------------------------------------------ DownloadWithContext
\* what the remote answers to aria2.addUri and to aria2.tellStatus; a call
\* that fails leaves its reply at the zero value
AddUriAnswers == {[gid |-> g, err |-> Nil] : g \in Handles}
                 \cup {[gid |-> NoGID, err |-> ErrAddUri]}
TellStatusAnswers(g) == {[status |-> StatusOf(g), err |-> Nil],
                         [status |-> NoStatus, err |-> ErrTellStatus]}

\* a variant of SubmitFailed: the error of AddUri is not looked at
SubmitFailedIgnored(ans) == FALSE

\* if err != nil { return } after AddUri
SubmitFailed(ans) == ans.err # Nil

\* gid, err := c.AddUri(uris, options), and on success
\* downloadDone := make(chan error, 1) and the go statement of the wait task
DlAddUri(ans) ==
    /\ ~crashed
    /\ dpc = "idle"
    /\ rpcCalls' = rpcCalls \cup {"aria2.addUri"}
    /\ dgid' = ans.gid
    /\ dret' = [status |-> NoStatus, err |-> ans.err]
    /\ IF SubmitFailed(ans)
       THEN /\ dpc' = "returned"
            /\ dbranch' = "submit"
            /\ UNCHANGED <<wpc, wgid>>
       ELSE /\ dpc' = "select"
            /\ wpc' = [wpc EXCEPT ![WaitTask] = "lookup"]
            /\ wgid' = [wgid EXCEPT ![WaitTask] = ans.gid]
            /\ UNCHANGED dbranch
    /\ UNCHANGED <<routerVars, handlerVars, wchan, wret, wkind, tableVars,
                   ctxDone, doneBuf, delErr, termFirst, callVars>>

\* downloadDone <- gid.WaitForDownload(): the send of the wait task.  A
\* caller parked in the select is woken with the downloadDone case.
WaitTaskSend ==
    /\ ~crashed
    /\ wpc[WaitTask] = "returned"
    /\ Len(doneBuf) < ChanCap
    /\ wpc' = [wpc EXCEPT ![WaitTask] = "sent"]
    /\ IF dpc = "parked"
       THEN dpc' = "doneBranch" /\ UNCHANGED doneBuf
       ELSE doneBuf' = Append(doneBuf, wret[WaitTask]) /\ UNCHANGED dpc
    /\ UNCHANGED <<routerVars, handlerVars, wgid, wchan, wret, wkind,
                   tableVars, dgid, dret, dbranch, ctxDone, rpcCalls, delErr,
                   termFirst, callVars>>

\* the context is cancelled (or its deadline passes).  A caller parked in the
\* select is woken with the ctx.Done() case.
CtxCancel ==
    /\ ~crashed
    /\ ~ctxDone
    /\ dpc # "returned"
    /\ ctxDone' = TRUE
    /\ dpc' = IF dpc = "parked" THEN "cancelBranch" ELSE dpc
    /\ UNCHANGED <<routerVars, handlerVars, waiterVars, tableVars, dgid, dret,
                   dbranch, doneBuf, rpcCalls, delErr, termFirst, callVars>>

\* the select statement: a case that is ready is taken, any of them when
\* both are; with none ready the caller parks
DlSelect ==
    /\ ~crashed
    /\ dpc = "select"
    /\ \/ /\ doneBuf # <<>>
          /\ doneBuf' = Tail(doneBuf)
          /\ dpc' = "doneBranch"
       \/ /\ ctxDone
          /\ dpc' = "cancelBranch"
          /\ UNCHANGED doneBuf
       \/ /\ doneBuf = <<>>
          /\ ~ctxDone
          /\ dpc' = "parked"
          /\ UNCHANGED doneBuf
    /\ UNCHANGED <<routerVars, handlerVars, waiterVars, tableVars, dgid, dret,
                   dbranch, ctxDone, rpcCalls, delErr, termFirst, callVars>>

\* a variant of DoneBranch: a status is returned beside the error
DoneBranchKeepsStatus(ans) == [status |-> StatusOf(dgid), err |-> ans.err]

\* a variant of DoneBranch: the error the wait task sent is returned when it
\* is not nil
DoneBranchSurfacesWait(ans) ==
    IF wret[WaitTask] # Nil
    THEN [status |-> NoStatus, err |-> wret[WaitTask]]
    ELSE [status |-> ans.status, err |-> ans.err]

\* case <-downloadDone: status, err = gid.TellStatus(), then return
DoneBranch(ans) == [status |-> ans.status, err |-> ans.err]

DlTellStatus(ans) ==
    /\ ~crashed
    /\ dpc = "doneBranch"
    /\ rpcCalls' = rpcCalls \cup {"aria2.tellStatus"}
    /\ dret' = DoneBranch(ans)
    /\ dpc' = "returned"
    /\ dbranch' = "done"
    /\ UNCHANGED <<routerVars, handlerVars, waiterVars, tableVars, dgid,
                   ctxDone, doneBuf, delErr, termFirst, callVars>>

\* a variant of CancelBranch: err = gid.Delete(), replaced only when nil
CancelBranchSurfacesDelete(deleteErr) ==
    [status |-> NoStatus,
     err |-> IF deleteErr # Nil THEN deleteErr ELSE ErrCancelled]

\* case <-ctx.Done(): _ = gid.Delete(); err = errors.New("download cancelled")
CancelBranch(deleteErr) == [status |-> NoStatus, err |-> ErrCancelled]

DlCancel(ans) ==
    /\ ~crashed
    /\ dpc = "cancelBranch"
    /\ rpcCalls' = rpcCalls \cup DeleteCalls(ans)
    /\ delErr' = Delete(ans)
    /\ dret' = CancelBranch(Delete(ans))
    /\ dpc' = "returned"
    /\ dbranch' = "cancel"
    /\ UNCHANGED <<routerVars, handlerVars, waiterVars, tableVars, dgid,
                   ctxDone, doneBuf, termFirst, callVars>>

\* ------------------------------------------------------------ the client
\* the six handlers NewClient registers, and the rest of a terminal handler
Handlers ==
    \/ \E g \in Handles : onDownloadStart(g)
    \/ \E g \in Handles : onDownloadPause(g)
    \/ \E g \in Handles : onDownloadStop(g)
    \/ \E g \in Handles : onDownloadComplete(g)
    \/ \E g \in Handles : onDownloadError(g)
    \/ \E g \in Handles : onBtDownloadComplete(g)
    \/ \E n \in Notifs : SignalLookup(n)
    \/ \E n \in Notifs : SignalSend(n)
    \/ \E n \in Notifs : HandlerReturn(n)

WaitForDownload(w) ==
    \/ WaitLookup(w)
    \/ WaitInsert(w)
    \/ WaitRecv(w)
    \/ WaitReturn(w)

DownloadWithContext ==
    \/ \E ans \in AddUriAnswers : DlAddUri(ans)
    \/ WaitForDownload(WaitTask)
    \/ WaitTaskSend
    \/ CtxCancel
    \/ DlSelect
    \/ \E ans \in TellStatusAnswers(dgid) : DlTellStatus(ans)
    \/ \E ans \in DeleteAnswers : DlCancel(ans)

\* one caller of WaitForDownload and the notifications of the remote
RegistryNext ==
    \/ Handlers
    \/ \E g \in Handles : WaitCall("w1", g)
    \/ WaitForDownload("w1")

\* callers of Subscribe besides: the router and the registry
RouterNext ==
    \/ \E name \in Kinds : Subscribe(name)
    \/ RegistryNext

SpecRouter == Init /\ [][RouterNext]_vars

\* one call of DownloadWithContext and the notifications
DownloadNext ==
    \/ DownloadWithContext
    \/ Handlers

SpecDownload == Init /\ [][DownloadNext]_vars

\* the remote reports the end of download g
TerminalNotification(g) ==
    \/ onDownloadStop(g)
    \/ onDownloadComplete(g)
    \/ onDownloadError(g)

\* one call of DownloadWithContext, with a remote that reports the end of the
\* submitted download, at any time after its reply to aria2.addUri and any
\* number of times
LiveNext ==
    \/ DownloadWithContext
    \/ /\ dpc # "idle"
       /\ dgid # NoGID
       /\ TerminalNotification(dgid)
    \/ \E n \in Notifs : SignalLookup(n)
    \/ \E n \in Notifs : SignalSend(n)
    \/ \E n \in Notifs : HandlerReturn(n)

\* the Go scheduler runs every goroutine that can run, and the remote answers
\* every call: a step of the code that stays possible is taken.  Nothing
\* obliges the user to call or to cancel, nor the remote to notify.
LiveFairness ==
    /\ WF_vars(WaitForDownload(WaitTask))
    /\ WF_vars(WaitTaskSend)
    /\ WF_vars(DlSelect)
    /\ WF_vars(\E ans \in TellStatusAnswers(dgid) : DlTellStatus(ans))
    /\ WF_vars(\E ans \in DeleteAnswers : DlCancel(ans))
    /\ \A n \in Notifs : WF_vars(SignalLookup(n))
    /\ \A n \in Notifs : WF_vars(SignalSend(n))
    /\ \A n \in Notifs : WF_vars(HandlerReturn(n))

SpecDownloadLive == Init /\ [][LiveNext]_vars /\ LiveFairness

\* two callers of WaitForDownload, one with a call for g1 and one with a call
\* for a handle of its choice, and a remote that reports the ends of downloads
WaitersNext ==
    \/ \E g \in Handles : TerminalNotification(g)
    \/ \E n \in Notifs : SignalLookup(n)
    \/ \E n \in Notifs : SignalSend(n)
    \/ \E n \in Notifs : HandlerReturn(n)
    \/ WaitCall("w1", "g1")
    \/ \E g \in Handles : WaitCall("w2", g)
    \/ \E w \in DirectWaiters : WaitForDownload(w)

SpecWaiters == Init /\ [][WaitersNext]_vars

\* ------------------------------------------------------------ MultiCall
\* An element of the reply of aria2.multicall is a JSON array (a success: its
\* only item is the result) or a JSON object (a failure: code and message;
\* a member the object lacks decodes to the default).  Payloads are opaque.
Payloads == {"p1", "p2"}
\* a nil []byte
NilRaw == ""
Codes == {0, 1}
Messages == {"", "m"}

JsonArray(items) == [t |-> "array", items |-> items, code |-> 0, message |-> ""]
JsonObject(code, message) ==
    [t |-> "object", items |-> <<>>, code |-> code, message |-> message]

RawElements ==
    {JsonArray(items) : items \in {<<>>} \cup {<<p>> : p \in Payloads}
                                  \cup {<<"p1", "p2">>}}
    \cup {JsonObject(c, m) : c \in Codes, m \in Messages}

Replies == UNION {[1..n -> RawElements] : n \in 0..MaxReply}

\* MethodCallError{}
ZeroMethodCallError == [Code |-> 0, Message |-> ""]

\* a variant of UnmarshalMethodCallError: the message is not decoded
UnmarshalCodeOnly(raw) ==
    IF raw.t = "object" THEN [Code |-> raw.code, Message |-> ""]
    ELSE [Code |-> 0, Message |-> ""]

\* json.Unmarshal(rawResult, &methodErr): an object fills the struct, anything
\* else is an error that leaves it untouched
UnmarshalMethodCallError(raw) ==
    IF raw.t = "object" THEN [Code |-> raw.code, Message |-> raw.message]
    ELSE ZeroMethodCallError

\* json.Unmarshal(rawResult, &resultArray) with resultArray [1]json.RawMessage,
\* then resultArray[0]: the first item of an array, nil for an empty array and
\* for what is no array
UnmarshalResultArray(raw) ==
    IF raw.t = "array" /\ Len(raw.items) >= 1 THEN raw.items[1] ELSE NilRaw

\* &methodErr: a pointer, which is never nil
PointerTo(methodErr) ==
    [isNil |-> FALSE, Code |-> methodErr.Code, Message |-> methodErr.Message]

\* the body of MultiCall's loop for one element
DecodeElement(raw) ==
    LET methodErr == UnmarshalMethodCallError(raw)
        methodResult == IF methodErr = ZeroMethodCallError
                        THEN UnmarshalResultArray(raw)
                        ELSE NilRaw
    IN [Result |-> methodResult, Error |-> PointerTo(methodErr)]

\* a variant of MultiCall: the results are appended to the slice made with
\* len(rawResults) elements
MultiCallAppend(rawResults) ==
    [i \in 1..Len(rawResults) |->
        [Result |-> NilRaw, Error |-> [isNil |-> TRUE, Code |-> 0, Message |-> ""]]]
    \o [i \in 1..Len(rawResults) |-> DecodeElement(rawResults[i])]

\* results := make([]MethodResult, len(rawResults)); results[i] = ...
MultiCall(rawResults) ==
    [i \in 1..Len(rawResults) |-> DecodeElement(rawResults[i])]

MultiCallReturn ==
    /\ ~mcDone
    /\ mcResults' = MultiCall(mcReply)
    /\ mcDone' = TRUE
    /\ UNCHANGED <<routerVars, handlerVars, waiterVars, tableVars, dlVars,
                   termFirst, mcReply, mlVars, delVars, cuVars>>

\* one call of MultiCall, for every reply of the remote
MultiCallInit ==
    /\ ClientInit
    /\ CallsIdle
    /\ mcReply \in Replies
    /\ mcResults = <<>>
    /\ mcDone = FALSE

SpecMultiCall == MultiCallInit /\ [][MultiCallReturn]_vars

\* ------------------------------------------------------------ AddMetalinkAtPosition
\* a GID is a struct of the client and the gid string; GID{} is its zero value
GetGID(gid) == [client |-> "c", gid |-> gid]
ZeroGID == [client |-> "nil", gid |-> ""]

\* what the remote answers to aria2.addMetalink: the GIDs of the downloads of
\* the metalink, or an error, which leaves reply nil
MetalinkAnswers ==
    {[reply |-> r, err |-> Nil] :
        r \in UNION {[1..n -> Handles] : n \in 0..MaxGids}}
    \cup {[reply |-> <<>>, err |-> ErrAddMetalink]}

\* make([]GID, n): n zero GIDs
MakeGIDs(n) == [i \in 1..n |-> ZeroGID]

\* gids := make([]GID, len(reply)), one append for each element of reply,
\* return gids, err
AddMetalinkAtPosition(ans) ==
    [gids |-> MakeGIDs(Len(ans.reply))
                 \o [i \in 1..Len(ans.reply) |-> GetGID(ans.reply[i])],
     err |-> ans.err]

AddMetalinkReturn ==
    /\ ~mlDone
    /\ mlRet' = AddMetalinkAtPosition(mlAns)
    /\ mlDone' = TRUE
    /\ UNCHANGED <<routerVars, handlerVars, waiterVars, tableVars, dlVars,
                   termFirst, mcVars, mlAns, delVars, cuVars>>

\* a call of Delete by the user of the client
DeleteReturn ==
    /\ ~delDone
    /\ delRet' = Delete(delAns)
    /\ delCalls' = DeleteCalls(delAns)
    /\ delDone' = TRUE
    /\ UNCHANGED <<routerVars, handlerVars, waiterVars, tableVars, dlVars,
                   termFirst, mcVars, mlVars, delAns, cuVars>>

\* ------------------------------------------------------------ ChangeURIAt
\* the numbers of URIs a reply of aria2.changeUri can hold
UriCounts == 0..1

\* what the remote answers to aria2.changeUri: the numbers of URIs deleted
\* and added, or an error, which leaves reply nil
ChangeUriAnswers ==
    {[reply |-> <<d, a>>, err |-> Nil] : d \in UriCounts, a \in UriCounts}
    \cup {[reply |-> <<>>, err |-> ErrChangeUri]}

\* return reply[0], reply[1], err: an index that is not below len(reply) is
\* a run-time panic (index out of range), and nothing is returned
ChangeURIAt(ans) ==
    IF Len(ans.reply) < 2
    THEN [panic |-> TRUE, deleted |-> 0, added |-> 0, err |-> Nil]
    ELSE [panic |-> FALSE, deleted |-> ans.reply[1], added |-> ans.reply[2],
          err |-> ans.err]

ChangeURIAtReturn ==
    /\ ~cuDone
    /\ cuRet' = ChangeURIAt(cuAns)
    /\ cuDone' = TRUE
    /\ UNCHANGED <<routerVars, handlerVars, waiterVars, tableVars, dlVars,
                   termFirst, mcVars, mlVars, delVars, cuAns>>

\* one call of AddMetalinkAtPosition, one of Delete and one of ChangeURIAt,
\* for every answer of the remote
CallsInit ==
    /\ ClientInit
    /\ McIdle
    /\ mlAns \in MetalinkAnswers
    /\ mlRet = [gids |-> <<>>, err |-> Nil]
    /\ mlDone = FALSE
    /\ delAns \in DeleteAnswers
    /\ delRet = Nil
    /\ delCalls = {}
    /\ delDone = FALSE
    /\ cuAns \in ChangeUriAnswers
    /\ cuRet = [panic |-> FALSE, deleted |-> 0, added |-> 0, err |-> Nil]
    /\ cuDone = FALSE

CallsNext ==
    \/ AddMetalinkReturn
    \/ DeleteReturn
    \/ ChangeURIAtReturn

SpecCalls == CallsInit /\ [][CallsNext]_vars

\* everything together
Next ==
    \/ \E name \in Kinds : Subscribe(name)
    \/ Handlers
    \/ \E w \in DirectWaiters, g \in Handles : WaitCall(w, g)
    \/ \E w \in DirectWaiters : WaitForDownload(w)
    \/ DownloadWithContext

Spec == Init /\ [][Next]_vars

\* ============================================================ properties
TerminalKinds == {"downloadStop", "downloadComplete", "downloadError"}

\* the listeners passed to Subscribe(name, ...) so far
Subscribed(name) ==
    {l \in ListenerIds : \E i \in 1..Len(listeners[name]) : listeners[name][i] = l}

\* w is the only call of WaitForDownload made for its handle
SingleCall(w) == \A v \in Waiters \ {w} : wgid[v] # wgid[w]

\* C1: a single WaitForDownload(h) call that registered its entry and was
\* woken by a downloadComplete notification returns nil, and once it has
\* returned activeGIDs holds no entry for h.
C1_CompleteRoundTrip ==
    \A w \in Waiters :
        (wpc[w] = "returned" /\ wkind[w] = "downloadComplete" /\ SingleCall(w))
            => (wret[w] = Nil /\ activeGIDs[wgid[w]] = NoChan)

C1_Witness ==
    /\ wpc["w1"] = "returned"
    /\ wkind["w1"] = "downloadComplete"
    /\ SingleCall("w1")

\* C2: when ctx.Done fires before a terminal notification for the submitted
\* handle has come, DownloadWithContext returns the cancellation error and no
\* status.
C2_CancelFirstReturnsCancelled ==
    (dpc = "returned" /\ dgid # NoGID /\ ctxDone /\ ~termFirst)
        => dret = [status |-> NoStatus, err |-> ErrCancelled]

\* C3: every return of DownloadWithContext is a status with a nil error, or
\* no status with one of the cancellation, submission and fetch errors.
C3_ExactlyOneResult ==
    dpc = "returned" =>
        \/ dbranch = "done" /\ dret.status # NoStatus /\ dret.err = Nil
        \/ dbranch = "done" /\ dret.status = NoStatus /\ dret.err = ErrTellStatus
        \/ dbranch = "cancel" /\ dret.status = NoStatus /\ dret.err = ErrCancelled
        \/ dbranch = "submit" /\ dret.status = NoStatus /\ dret.err = ErrAddUri

C3_Witness ==
    /\ dpc = "returned"
    /\ dbranch = "done"
    /\ dret.err = ErrTellStatus

\* C4: a WaitForDownload call woken by downloadStop and one woken by
\* downloadError each hold a non-nil error from the receive on, the error
\* names its cause, and the two errors differ.
C4_StopAndErrorDiffer ==
    \A w \in Waiters :
        wpc[w] \in {"delete", "returned"} =>
            /\ wkind[w] = "downloadStop" =>
                  (wret[w] = "download stopped" /\ wret[w] # Nil)
            /\ wkind[w] = "downloadError" =>
                  (wret[w] = "download encountered error" /\ wret[w] # Nil)
            /\ Outcome("downloadStop") # Outcome("downloadError")

C4_Witness ==
    /\ wpc["w1"] = "returned"
    /\ wkind["w1"] = "downloadError"
    /\ wret["w1"] = ErrErrored

\* C5: a terminal handler that finds no entry for its handle changes neither
\* activeGIDs nor the content of any channel, goes on to its return without a
\* send, and returns.
C5_NoEntryNoOp ==
    [][\A n \in Notifs :
          /\ (hpc[n] = "lookup" /\ hpc'[n] # "lookup"
                  /\ activeGIDs[hgid[n]] = NoChan)
                => (/\ hpc'[n] = "return"
                    /\ hchan'[n] = NoChan
                    /\ activeGIDs' = activeGIDs
                    /\ chanBuf' = chanBuf
                    /\ ~crashed')
          /\ (hpc[n] = "return" /\ hchan[n] = NoChan /\ hpc'[n] # "return")
                => (/\ hpc'[n] = "none"
                    /\ activeGIDs' = activeGIDs
                    /\ chanBuf' = chanBuf
                    /\ ~crashed')]_vars

C5_Witness ==
    \E n \in Notifs :
        /\ hpc[n] = "return"
        /\ hkind[n] \in TerminalKinds
        /\ hchan[n] = NoChan
        /\ activeGIDs[hgid[n]] = NoChan
        /\ \E g \in Handles : activeGIDs[g] # NoChan

\* the call of AddUri has failed
SubmissionFailed == "aria2.addUri" \in rpcCalls /\ dgid = NoGID

\* C6: after a failed AddUri, DownloadWithContext has returned the submission
\* error, the wait task is never started, no waiter entry is made, and neither
\* aria2.tellStatus nor any call of Delete is made.
C6_SubmitFailureAborts ==
    SubmissionFailed =>
        /\ dpc = "returned"
        /\ dret = [status |-> NoStatus, err |-> ErrAddUri]
        /\ wpc[WaitTask] = "idle"
        /\ \A g \in GIDs : activeGIDs[g] = NoChan
        /\ rpcCalls = {"aria2.addUri"}

C6_Witness ==
    /\ SubmissionFailed
    /\ dpc = "returned"
    /\ \E n \in Notifs : hpc[n] = "return"

\* C7: on the cancellation branch Delete is called and the cancellation error
\* is returned whatever Delete returned; it is no error of Delete and none of
\* the two errors of a terminal notification.
C7_CancelSwallowsDelete ==
    dbranch = "cancel" =>
        /\ "aria2.remove" \in rpcCalls
        /\ dret = [status |-> NoStatus, err |-> "download cancelled"]
        /\ dret.err # delErr
        /\ dret.err \notin {Outcome(k) : k \in TerminalKinds}
        /\ dret.err \notin {ErrRemove, ErrGetFiles}

C7_Witness ==
    /\ dbranch = "cancel"
    /\ delErr = ErrRemove

\* C8: the go statements a notification of kind k leads to are exactly one
\* for each listener passed to Subscribe(k, ...), none for anything else, and
\* none that stops the program.
C8_ExactlySubscribedInvoked ==
    [][\A n \in Notifs :
          (hpc[n] = "none" /\ hpc'[n] # "none") =>
              LET new == SubSeq(invoked', Len(invoked) + 1, Len(invoked'))
              IN /\ \A l \in Subscribed(hkind'[n]) :
                        Cardinality({i \in 1..Len(new) : new[i] = <<l, n>>}) = 1
                 /\ \A i \in 1..Len(new) : new[i][1] \in Subscribed(hkind'[n])
                 /\ ~crashed']_vars

\* C9: a handler that has started listeners is not held up by them: it is
\* not stopped, and neither is the program, so that later notifications are
\* handled and outcomes reach the waiters.
C9_ListenersDoNotStall ==
    \A n \in Notifs :
        (hpc[n] # "none" /\ Subscribed(hkind[n]) # {}
                /\ \E i \in 1..Len(invoked) : invoked[i][2] = n)
            => (hpc[n] # "fatal" /\ ~crashed)

\* an element that is a failure descriptor with a non-default code or message
IsFailureElement(raw) ==
    raw.t = "object" /\ (raw.code # 0 \/ raw.message # "")
\* an element that is a success: an array of the one payload
IsSuccessElement(raw) == raw.t = "array" /\ Len(raw.items) = 1
\* a result marked as failure: no payload, and a descriptor that is not the
\* default one
MarkedFailure(res) ==
    /\ res.Result = NilRaw
    /\ ~res.Error.isNil
    /\ [Code |-> res.Error.Code, Message |-> res.Error.Message]
          # ZeroMethodCallError

\* C10: for a reply whose element i is a failure descriptor and whose other
\* elements are successes, the results are as many as the elements, result i
\* is the only one marked as failure and carries the descriptor, and every
\* other result j carries the payload of element j.
C10_OrderPreserving ==
    mcDone =>
        \A i \in 1..Len(mcReply) :
            (/\ IsFailureElement(mcReply[i])
             /\ \A j \in 1..Len(mcReply) : j # i => IsSuccessElement(mcReply[j]))
                => /\ Len(mcResults) = Len(mcReply)
                   /\ MarkedFailure(mcResults[i])
                   /\ mcResults[i].Error.Code = mcReply[i].code
                   /\ mcResults[i].Error.Message = mcReply[i].message
                   /\ \A j \in 1..Len(mcReply) : j # i =>
                          /\ ~MarkedFailure(mcResults[j])
                          /\ mcResults[j].Result = mcReply[j].items[1]

C10_Witness ==
    /\ mcDone
    /\ Len(mcReply) = 3
    /\ IsFailureElement(mcReply[2])
    /\ IsSuccessElement(mcReply[1])
    /\ IsSuccessElement(mcReply[3])
    /\ mcReply[1] # mcReply[3]
    /\ MarkedFailure(mcResults[2])

\* a result whose payload is set and whose failure descriptor is not
OnlyResultSet(res) == res.Result # NilRaw /\ res.Error.isNil
\* a result whose failure descriptor is set and whose payload is not
OnlyErrorSet(res) == res.Result = NilRaw /\ ~res.Error.isNil

\* C11: every result of MultiCall for an element the remote can send (an
\* array of one payload, or a failure descriptor) has exactly one of its two
\* fields set: Result and a nil Error for a success, a non-nil Error and no
\* Result for a failure.
C11_ExactlyOneFieldSet ==
    mcDone =>
        \A i \in 1..Len(mcResults) :
            /\ IsSuccessElement(mcReply[i]) => OnlyResultSet(mcResults[i])
            /\ IsFailureElement(mcReply[i]) => OnlyErrorSet(mcResults[i])

\* C12: AddMetalinkAtPosition returns one GID for each element of the reply
\* of aria2.addMetalink, the GID of element i at position i, and nothing else.
C12_ReturnsReplyGIDs ==
    mlDone =>
        /\ Len(mlRet.gids) = Len(mlAns.reply)
        /\ \A i \in 1..Len(mlRet.gids) :
              /\ mlRet.gids[i] # ZeroGID
              /\ i <= Len(mlAns.reply) => mlRet.gids[i] = GetGID(mlAns.reply[i])

\* C13: when aria2.remove succeeds Delete returns nil, whether aria2.getFiles
\* or os.Remove fails afterwards or not; when aria2.remove fails Delete
\* returns its error and makes no other call.
C13_CleanupNeverSurfaces ==
    delDone =>
        /\ delAns.remove = Nil => delRet = Nil
        /\ delAns.remove # Nil =>
              (delRet = delAns.remove /\ delCalls = {"aria2.remove"})

\* a handler is running for a terminal notification for the submitted handle
TerminalHandled ==
    /\ dgid # NoGID
    /\ \E n \in Notifs : /\ hpc[n] # "none"
                         /\ hgid[n] = dgid
                         /\ hkind[n] \in TerminalKinds

\* C14: once the submission has succeeded and a terminal notification for
\* the handle is handled, DownloadWithContext returns, unless the context is
\* cancelled; the wait task may have registered the entry by then or not.
C14_EventuallyReturns == TerminalHandled ~> (dpc = "returned" \/ ctxDone)

\* activeGIDs has an entry with channel c
Referenced(c) == \E g \in GIDs : activeGIDs[g] = c

\* w receives on the channel it made, which is empty, which no entry of
\* activeGIDs holds and on which no handler is about to send
Orphaned(w) ==
    /\ wpc[w] = "recv"
    /\ wchan[w] = w
    /\ chanBuf[w] = <<>>
    /\ ~Referenced(w)
    /\ \A n \in Notifs : ~(hpc[n] = "send" /\ hchan[n] = w)

\* C15: a WaitForDownload(h) call that stores its channel while h has an entry
\* replaces that entry's channel, which activeGIDs then holds no more; and a
\* waiter that receives on an empty channel no entry and no handler holds
\* stays so in every later state: it blocks for ever.
C15_SecondRegistrationReplaces ==
    [][\A w \in DirectWaiters :
          /\ (wpc[w] = "insert" /\ wpc'[w] = "recv"
                  /\ activeGIDs[wgid[w]] # NoChan)
                => /\ activeGIDs'[wgid[w]] = wchan[w]
                   /\ \A g \in GIDs : activeGIDs'[g] # activeGIDs[wgid[w]]
          /\ Orphaned(w) => Orphaned(w)']_vars

\* the first waiter blocks for ever although a terminal notification for its
\* handle was handled and woke the second waiter
C15_Witness ==
    /\ Orphaned("w1")
    /\ wpc["w2"] = "returned"
    /\ wgid["w2"] = wgid["w1"]
    /\ wkind["w2"] \in TerminalKinds
    /\ \A n \in Notifs : hpc[n] = "none"

\* C16: no two WaitForDownload calls receive from the same channel at the
\* same time.
C16_OneWaiterPerEntry ==
    \A v, w \in Waiters :
        (v # w /\ wpc[v] = "recv" /\ wpc[w] = "recv") => wchan[v] # wchan[w]

\* handler n is blocked in its send: the buffer of the channel is full
SendBlocked(n) == hpc[n] = "send" /\ Len(chanBuf[hchan[n]]) >= ChanCap

\* C17: a terminal handler that finds an entry whose channel holds an outcome
\* does not block, and a channel whose outcome the waiter has consumed never
\* holds a second one.
C17_SecondOutcomeDropped ==
    /\ \A n \in Notifs : ~SendBlocked(n)
    /\ \A w \in Waiters :
          (wpc[w] \in {"delete", "returned"} /\ wkind[w] # "none")
              => chanBuf[w] = <<>>

\* A goroutine whose next step is an operation on activeGIDs is in that
\* operation: the code takes no lock and does no channel operation between the
\* end of its previous step and the map access.
\* waiter w is writing activeGIDs (the insert or the delete)
WritesTable(w) == wpc[w] \in {"insert", "delete"}
\* waiter w is reading activeGIDs (the lookup)
WaiterReadsTable(w) == wpc[w] = "lookup"
\* handler n is reading activeGIDs (the lookup)
HandlerReadsTable(n) == hpc[n] = "lookup"

\* C18: while a goroutine writes activeGIDs no other goroutine reads or writes
\* it.
C18_TableAccessSynchronized ==
    \A w \in Waiters :
        WritesTable(w) =>
            /\ \A n \in Notifs : ~HandlerReadsTable(n)
            /\ \A v \in Waiters \ {w} : ~(WaiterReadsTable(v) \/ WritesTable(v))

\* DownloadWithContext has returned on cancellation
ReturnedCancelled == dpc = "returned" /\ dbranch = "cancel"

\* the wait task has ended and left nothing behind
WaitTaskCleanedUp == wpc[WaitTask] = "sent" /\ activeGIDs[dgid] = NoChan

\* C19: once DownloadWithContext has returned on cancellation (no handler
\* running), whenever a terminal notification for the handle is handled
\* afterwards the wait task takes the outcome, deletes the entry, completes
\* its send on downloadDone and ends.
C19_AbandonedTaskCleansUp ==
    []((ReturnedCancelled /\ \A n \in Notifs : hpc[n] = "none")
          => [](TerminalHandled => <>WaitTaskCleanedUp))

\* C20: on the downloadDone branch DownloadWithContext returns what
\* TellStatus returned for the handle, the status with a nil error or no
\* status with the error of the call, and never the error the wait ended
\* with, whatever the outcome of the wait was.
C20_DoneBranchReturnsFetch ==
    dbranch = "done" =>
        /\ dret \in TellStatusAnswers(dgid)
        /\ dret.err = Nil => dret.status = StatusOf(dgid)
        /\ dret.err \notin {ErrStopped, ErrErrored}
        /\ wret[WaitTask] # Nil => dret.err # wret[WaitTask]

C20_Witness ==
    /\ dbranch = "done"
    /\ ~ctxDone
    /\ wkind[WaitTask] = "downloadError"
    /\ wret[WaitTask] = ErrErrored
    /\ dret = [status |-> StatusOf(dgid), err |-> Nil]

NonTerminalKinds == Kinds \ TerminalKinds

\* C21: every step of a handler of downloadStart, downloadPause or
\* btDownloadComplete leaves activeGIDs, the content of every channel and the
\* position of every WaitForDownload call as they are; such a handler never
\* comes to a lookup or a send, and no call has received an outcome of a
\* non-terminal notification.
C21_NonTerminalLeavesRegistry ==
    [][/\ \A n \in Notifs :
             /\ (hpc[n] = "none" /\ hpc'[n] # "none"
                     /\ hkind'[n] \in NonTerminalKinds)
                   => /\ hpc'[n] \in {"return", "fatal"}
                      /\ activeGIDs' = activeGIDs
                      /\ chanBuf' = chanBuf
                      /\ wpc' = wpc
             /\ (hpc[n] # "none" /\ hkind[n] \in NonTerminalKinds
                     /\ hpc'[n] # hpc[n])
                   => /\ hpc[n] = "return"
                      /\ hpc'[n] = "none"
                      /\ activeGIDs' = activeGIDs
                      /\ chanBuf' = chanBuf
                      /\ wpc' = wpc
       /\ \A w \in Waiters : wkind'[w] \notin NonTerminalKinds]_vars

\* a non-terminal notification for a handle with a registered entry has been
\* handled and the call of WaitForDownload for it is still blocked
C21_Witness ==
    \E n \in Notifs :
        /\ hpc[n] = "return"
        /\ hkind[n] \in NonTerminalKinds
        /\ activeGIDs[hgid[n]] = "w1"
        /\ wpc["w1"] = "recv"
        /\ wgid["w1"] = hgid[n]
        /\ chanBuf["w1"] = <<>>

\* a failure descriptor whose code and message are the default values
DefaultDescriptor == JsonObject(0, "")

\* C22: the result for a failure descriptor with default code and message is
\* the result of a success with an empty payload: no payload, and a descriptor
\* that is the default one; the result for every other failure descriptor is
\* marked as failure and carries the code and the message of the element.
C22_DefaultDescriptorIsSuccess ==
    mcDone =>
        \A i \in 1..Len(mcReply) :
            /\ mcReply[i] = DefaultDescriptor
                  => /\ ~MarkedFailure(mcResults[i])
                     /\ mcResults[i].Result = NilRaw
                     /\ mcResults[i] = DecodeElement(JsonArray(<<>>))
            /\ IsFailureElement(mcReply[i])
                  => /\ MarkedFailure(mcResults[i])
                     /\ mcResults[i].Error.Code = mcReply[i].code
                     /\ mcResults[i].Error.Message = mcReply[i].message

C22_Witness ==
    /\ mcDone
    /\ Len(mcReply) = 3
    /\ mcReply[1] = DefaultDescriptor
    /\ mcReply[2] = JsonObject(0, "m")
    /\ mcReply[3] = JsonObject(1, "")
    /\ ~MarkedFailure(mcResults[1])
    /\ MarkedFailure(mcResults[2])
    /\ MarkedFailure(mcResults[3])

\* C23: a call of ChangeURIAt for which aria2.changeUri failed ends by
\* returning the error of the call, and no call of ChangeURIAt ends in a
\* panic.
C23_ReturnsCallError ==
    cuDone =>
        /\ ~cuRet.panic
        /\ cuAns.err # Nil => cuRet.err = cuAns.err

====
